---- MODULE Spec2Model ----
(***************************************************************************)
(* Model of day01/part2.py: a dial with 100 positions, started at 50, is   *)
(* turned one unit at a time by the commands of input.txt; the program     *)
(* prints how many unit steps left the dial on 0.                          *)
(*                                                                         *)
(* Text is a sequence of one-character strings.  The file's content is     *)
(* drawn from Inputs; the program is run twice on it (Exit starts the      *)
(* second run as a fresh process).                                         *)
(***************************************************************************)
EXTENDS Integers, Sequences, FiniteSets, TLC

VARIABLES
    text,          \* content of input.txt (never written by the program)
    run,           \* 1 or 2: which run of the program this is
    prev_out,      \* what the previous run wrote to standard output
    pc,            \* "start", "for", "amount", "range", "done", "error"
    lines,         \* part2.py: lines
    dial,          \* part2.py: dial
    zero_count,    \* part2.py: zero_count
    idx,           \* position of the outer for loop in lines (0 = before the first)
    line,          \* part2.py: line
    dir,           \* part2.py: dir
    amount,        \* part2.py: amount
    i,             \* number of iterations of range(amount) already made
    out,           \* standard output of this run: the printed answers
    err,           \* "none", or the exception that ended this run
    nsteps,        \* history: unit transitions made in this run
    dial_at_cmd,   \* history: dial when the current command was fetched
    count_at_cmd,  \* history: zero_count when the current command was fetched
    steps_at_cmd   \* history: nsteps when the current command was fetched

vars == <<text, run, prev_out, pc, lines, dial, zero_count, idx, line, dir,
          amount, i, out, err, nsteps, dial_at_cmd, count_at_cmd, steps_at_cmd>>

(***************************************************************************)
(* Program constants and bounds                                            *)
(***************************************************************************)
InitDial == 50

DialSize == 100

MaxPieces == 2

(***************************************************************************)
(* Characters                                                              *)
(***************************************************************************)
NL == "\n"

Whitespace == {" ", "\t", "\r", "\n"}

Digits == {"0", "1", "2", "3", "4", "5", "6", "7", "8", "9"}

DigitVal(c) ==
    CASE c = "0" -> 0 [] c = "1" -> 1 [] c = "2" -> 2 [] c = "3" -> 3
      [] c = "4" -> 4 [] c = "5" -> 5 [] c = "6" -> 6 [] c = "7" -> 7
      [] c = "8" -> 8 [] c = "9" -> 9

Front(s) == SubSeq(s, 1, Len(s) - 1)

Last(s) == s[Len(s)]

(***************************************************************************)
(* str.strip(), str.split("\n"), int()                                     *)
(***************************************************************************)
RECURSIVE LStrip(_)
LStrip(s) ==
    IF s # <<>> /\ Head(s) \in Whitespace THEN LStrip(Tail(s)) ELSE s

RECURSIVE RStrip(_)
RStrip(s) ==
    IF s # <<>> /\ Last(s) \in Whitespace THEN RStrip(Front(s)) ELSE s

Strip(s) == RStrip(LStrip(s))

RECURSIVE SplitFrom(_, _, _)
SplitFrom(s, cur, acc) ==
    IF s = <<>> THEN Append(acc, cur)
    ELSE IF Head(s) = NL THEN SplitFrom(Tail(s), <<>>, Append(acc, cur))
    ELSE SplitFrom(Tail(s), Append(cur, Head(s)), acc)

Split(s) == SplitFrom(s, <<>>, <<>>)

ReadLines(t) == Split(Strip(t))

\* The literal without surrounding whitespace and without its sign.
Unsigned(s) ==
    LET t == Strip(s)
    IN  IF t # <<>> /\ Head(t) \in {"+", "-"} THEN Tail(t) ELSE t

\* Digits, with single underscores allowed between two digits.
DigitGroups(u) ==
    /\ u # <<>>
    /\ \A k \in 1..Len(u) : u[k] \in Digits \cup {"_"}
    /\ u[1] \in Digits
    /\ u[Len(u)] \in Digits
    /\ \A k \in 1..(Len(u) - 1) : ~(u[k] = "_" /\ u[k + 1] = "_")

IsIntLiteralOrEmpty(s) == Strip(s) = <<>> \/ DigitGroups(Unsigned(s))

IsIntLiteral(s) == DigitGroups(Unsigned(s))

RECURSIVE DigitsValue(_)
DigitsValue(u) ==
    IF u = <<>> THEN 0
    ELSE IF Last(u) = "_" THEN DigitsValue(Front(u))
    ELSE DigitsValue(Front(u)) * 10 + DigitVal(Last(u))

IntValue(s) ==
    LET t == Strip(s)
    IN  IF t # <<>> /\ Head(t) = "-" THEN 0 - DigitsValue(Unsigned(s))
        ELSE DigitsValue(Unsigned(s))

DirectionOnlyR(l) == IF l[1] = "R" THEN 1 ELSE -1

Direction(l) == IF l[1] = "L" THEN -1 ELSE 1

(***************************************************************************)
(* The contents input.txt may have: up to MaxPieces pieces joined by       *)
(* newlines.  A piece is a command line, a malformed line, blanks, or a    *)
(* blank line followed by a command.                                       *)
(***************************************************************************)
Pieces ==
    { <<"L", "5", "0">>,
      <<"R", "1", "0", "0">>,
      <<"R", "2", "5">>,
      <<"L", "1", "5", "0">>,
      <<"R", "1", "5", "0">>,
      <<"L", "0">>,
      <<"X", "1", "5">>,
      <<"l", "5">>,
      <<"7", "3">>,
      <<"L", "-", "5">>,
      <<"R", "+", "5">>,
      <<"R", "5", "x">>,
      <<"L">>,
      <<" ">>,
      <<"\n", "R", "2", "5">> }

RECURSIVE Join(_)
Join(ps) ==
    IF ps = <<>> THEN <<>>
    ELSE IF Len(ps) = 1 THEN ps[1]
    ELSE ps[1] \o <<NL>> \o Join(Tail(ps))

Inputs == { Join(ps) : ps \in UNION { [1..n -> Pieces] : n \in 0..MaxPieces } }

(***************************************************************************)
(* The program                                                             *)
(***************************************************************************)
Init ==
    /\ text \in Inputs
    /\ run = 1
    /\ prev_out = <<>>
    /\ pc = "start"
    /\ lines = <<>>
    /\ dial = 0
    /\ zero_count = 0
    /\ idx = 0
    /\ line = <<>>
    /\ dir = 0
    /\ amount = 0
    /\ i = 0
    /\ out = <<>>
    /\ err = "none"
    /\ nsteps = 0
    /\ dial_at_cmd = 0
    /\ count_at_cmd = 0
    /\ steps_at_cmd = 0

\* A bug to compare with: the counter starts from the previous run's answer.
StartCarry ==
    /\ pc = "start"
    /\ lines' = ReadLines(text)
    /\ dial' = InitDial
    /\ zero_count' = IF prev_out # <<>> THEN prev_out[1] ELSE 0
    /\ pc' = "for"
    /\ UNCHANGED <<text, run, prev_out, idx, line, dir, amount, i, out, err,
                   nsteps, dial_at_cmd, count_at_cmd, steps_at_cmd>>

\* Lines 1-5: read the file, strip it, split it; dial = 50; zero_count = 0.
Start ==
    /\ pc = "start"
    /\ lines' = ReadLines(text)
    /\ dial' = InitDial
    /\ zero_count' = 0
    /\ pc' = "for"
    /\ UNCHANGED <<text, run, prev_out, idx, line, dir, amount, i, out, err,
                   nsteps, dial_at_cmd, count_at_cmd, steps_at_cmd>>

\* Lines 7-11: take the next line; line[0] raises IndexError on an empty
\* line, otherwise it sets dir.
ForLine ==
    /\ pc = "for"
    /\ idx < Len(lines)
    /\ idx' = idx + 1
    /\ line' = lines[idx + 1]
    /\ dial_at_cmd' = dial
    /\ count_at_cmd' = zero_count
    /\ steps_at_cmd' = nsteps
    /\ IF line' = <<>>
       THEN /\ pc' = "error"
            /\ err' = "IndexError"
            /\ dir' = dir
       ELSE /\ pc' = "amount"
            /\ err' = err
            /\ dir' = Direction(line')
    /\ UNCHANGED <<text, run, prev_out, lines, dial, zero_count, amount, i,
                   out, nsteps>>

\* A bug to compare with: a missing magnitude is taken for 0.
ParseAmountLenient ==
    /\ pc = "amount"
    /\ IF IsIntLiteralOrEmpty(Tail(line))
       THEN /\ amount' = IntValue(Tail(line))
            /\ i' = 0
            /\ pc' = "range"
            /\ err' = err
       ELSE /\ pc' = "error"
            /\ err' = "ValueError"
            /\ UNCHANGED <<amount, i>>
    /\ UNCHANGED <<text, run, prev_out, lines, dial, zero_count, idx, line,
                   dir, out, nsteps, dial_at_cmd, count_at_cmd, steps_at_cmd>>

\* Line 12: amount = int(line[1:]); int raises ValueError on anything that
\* is not an integer literal.
ParseAmount ==
    /\ pc = "amount"
    /\ IF IsIntLiteral(Tail(line))
       THEN /\ amount' = IntValue(Tail(line))
            /\ i' = 0
            /\ pc' = "range"
            /\ err' = err
       ELSE /\ pc' = "error"
            /\ err' = "ValueError"
            /\ UNCHANGED <<amount, i>>
    /\ UNCHANGED <<text, run, prev_out, lines, dial, zero_count, idx, line,
                   dir, out, nsteps, dial_at_cmd, count_at_cmd, steps_at_cmd>>

\* A bug to compare with: the loop body runs once before the test.
StepDoWhile ==
    /\ pc = "range"
    /\ i <= amount
    /\ dial' = (dial + dir + DialSize) % DialSize
    /\ zero_count' = IF dial' = 0 THEN zero_count + 1 ELSE zero_count
    /\ i' = i + 1
    /\ nsteps' = nsteps + 1
    /\ UNCHANGED <<text, run, prev_out, pc, lines, idx, line, dir, amount,
                   out, err, dial_at_cmd, count_at_cmd, steps_at_cmd>>

\* A bug to compare with: the dial is tested before it is moved.
StepTestFirst ==
    /\ pc = "range"
    /\ i < amount
    /\ dial' = (dial + dir + DialSize) % DialSize
    /\ zero_count' = IF dial = 0 THEN zero_count + 1 ELSE zero_count
    /\ i' = i + 1
    /\ nsteps' = nsteps + 1
    /\ UNCHANGED <<text, run, prev_out, pc, lines, idx, line, dir, amount,
                   out, err, dial_at_cmd, count_at_cmd, steps_at_cmd>>

\* A bug to compare with: the dial has 101 positions.
StepOffByOne ==
    /\ pc = "range"
    /\ i < amount
    /\ dial' = (dial + dir + DialSize + 1) % (DialSize + 1)
    /\ zero_count' = IF dial' = 0 THEN zero_count + 1 ELSE zero_count
    /\ i' = i + 1
    /\ nsteps' = nsteps + 1
    /\ UNCHANGED <<text, run, prev_out, pc, lines, idx, line, dir, amount,
                   out, err, dial_at_cmd, count_at_cmd, steps_at_cmd>>

\* A bug to compare with: only a full turn back to 0 is counted, the first
\* arrival on 0 within a command is not.
StepSkipFirst ==
    /\ pc = "range"
    /\ i < amount
    /\ dial' = (dial + dir + DialSize) % DialSize
    /\ zero_count' = IF dial' = 0 /\ i >= DialSize - 1
                     THEN zero_count + 1 ELSE zero_count
    /\ i' = i + 1
    /\ nsteps' = nsteps + 1
    /\ UNCHANGED <<text, run, prev_out, pc, lines, idx, line, dir, amount,
                   out, err, dial_at_cmd, count_at_cmd, steps_at_cmd>>

\* Lines 13-16: one iteration of range(amount).
Step ==
    /\ pc = "range"
    /\ i < amount
    /\ dial' = (dial + dir + DialSize) % DialSize
    /\ zero_count' = IF dial' = 0 THEN zero_count + 1 ELSE zero_count
    /\ i' = i + 1
    /\ nsteps' = nsteps + 1
    /\ UNCHANGED <<text, run, prev_out, pc, lines, idx, line, dir, amount,
                   out, err, dial_at_cmd, count_at_cmd, steps_at_cmd>>

\* A bug to compare with: the print is inside the for loop.
EndRangePrints ==
    /\ pc = "range"
    /\ ~(i < amount)
    /\ pc' = "for"
    /\ out' = Append(out, zero_count)
    /\ UNCHANGED <<text, run, prev_out, lines, dial, zero_count, idx, line,
                   dir, amount, i, err, nsteps, dial_at_cmd, count_at_cmd,
                   steps_at_cmd>>

\* Line 13: range(amount) is exhausted; back to the for loop of line 7.
EndRange ==
    /\ pc = "range"
    /\ ~(i < amount)
    /\ pc' = "for"
    /\ UNCHANGED <<text, run, prev_out, lines, dial, zero_count, idx, line,
                   dir, amount, i, out, err, nsteps, dial_at_cmd,
                   count_at_cmd, steps_at_cmd>>

\* Line 18: the for loop is over; print the answer.
PrintAnswer ==
    /\ pc = "for"
    /\ idx = Len(lines)
    /\ out' = Append(out, zero_count)
    /\ pc' = "done"
    /\ UNCHANGED <<text, run, prev_out, lines, dial, zero_count, idx, line,
                   dir, amount, i, err, nsteps, dial_at_cmd, count_at_cmd,
                   steps_at_cmd>>

\* The process ends (after line 18, or by the exception) and the program is
\* started again on the same file: nothing but the file is kept.
Exit ==
    /\ pc \in {"done", "error"}
    /\ run = 1
    /\ run' = 2
    /\ prev_out' = out
    /\ pc' = "start"
    /\ lines' = <<>>
    /\ dial' = 0
    /\ zero_count' = 0
    /\ idx' = 0
    /\ line' = <<>>
    /\ dir' = 0
    /\ amount' = 0
    /\ i' = 0
    /\ out' = <<>>
    /\ err' = "none"
    /\ nsteps' = 0
    /\ dial_at_cmd' = 0
    /\ count_at_cmd' = 0
    /\ steps_at_cmd' = 0
    /\ UNCHANGED text

Next ==
    \/ Start
    \/ ForLine
    \/ ParseAmount
    \/ Step
    \/ EndRange
    \/ PrintAnswer
    \/ Exit

Spec == Init /\ [][Next]_vars

\* The interpreter runs the program to its end: no step is put off for ever.
FairSpec == Init /\ [][Next]_vars /\ WF_vars(Next)

(***************************************************************************)
(* What the claims speak of                                                *)
(***************************************************************************)
\* <char><digits>: a direction character followed by one or more digits.
WellShaped(l) == Len(l) >= 2 /\ \A k \in 2..Len(l) : l[k] \in Digits

ValidLines(ls) == ls # <<>> /\ \A k \in 1..Len(ls) : WellShaped(ls[k])

DeltaOf(l) == IF Head(l) = "L" THEN -1 ELSE 1

RECURSIVE Decimal(_)
Decimal(ds) ==
    IF ds = <<>> THEN 0 ELSE 10 * Decimal(Front(ds)) + DigitVal(Last(ds))

MagnitudeOf(l) == Decimal(Tail(l))

RECURSIVE TotalMagnitude(_)
TotalMagnitude(ls) ==
    IF ls = <<>> THEN 0 ELSE MagnitudeOf(Head(ls)) + TotalMagnitude(Tail(ls))

\* Net displacement of the dial after the first n unit steps of ls.
RECURSIVE NetAfter(_, _)
NetAfter(ls, n) ==
    IF ls = <<>> \/ n = 0 THEN 0
    ELSE LET m == MagnitudeOf(Head(ls))
             d == DeltaOf(Head(ls))
         IN  IF n <= m THEN d * n ELSE d * m + NetAfter(Tail(ls), n - m)

PositionAfter(ls, n) == (((50 + NetAfter(ls, n)) % 100) + 100) % 100

ZeroVisits(ls) ==
    Cardinality({ n \in 1..TotalMagnitude(ls) : PositionAfter(ls, n) = 0 })

ClosedCount(d, delta, m) ==
    IF delta = 1 THEN (d + m) \div 100
    ELSE IF d = 0 THEN m \div 100
    ELSE IF m < d THEN 0
    ELSE 1 + ((m - d) \div 100)

ClosedDial(d, delta, m) == (((d + delta * m) % 100) + 100) % 100

L50R100 == <<"L", "5", "0", "\n", "R", "1", "0", "0">>

(***************************************************************************)
(* C1: for every valid input, the printed answer is the number of unit     *)
(* steps, over all commands in file order, after which the running dial    *)
(* position (from 50, -1 per step for L, +1 otherwise, modulo 100) is 0.   *)
(***************************************************************************)
C1_AnswerIsZeroVisits ==
    (pc = "done" /\ ValidLines(lines)) => out = <<ZeroVisits(lines)>>

C1_Witness ==
    /\ pc = "done"
    /\ ValidLines(lines)
    /\ Len(lines) = 2
    /\ out = <<3>>

(***************************************************************************)
(* C2: on the input L50, R100: during L50 the dial is 0 exactly once, at   *)
(* the 50th step, and is 0 when L50 finishes; during R100 the dial is 0    *)
(* exactly once, at the 100th step; the answer is 2.                       *)
(***************************************************************************)
C2_L50R100 ==
    text = L50R100 =>
        /\ (idx = 1 /\ pc = "range") =>
               /\ i \in 0..50
               /\ dial = 0 <=> i = 50
               /\ zero_count = IF i = 50 THEN 1 ELSE 0
        /\ (idx = 1 /\ pc = "for") => (dial = 0 /\ zero_count = 1)
        /\ (idx = 2 /\ pc = "range") =>
               /\ i \in 0..100
               /\ i >= 1 => (dial = 0 <=> i = 100)
               /\ zero_count = IF i = 100 THEN 2 ELSE 1
        /\ pc = "done" => out = <<2>>
        /\ pc # "error"

C2_Witness ==
    /\ text = L50R100
    /\ pc = "done"
    /\ out = <<2>>
    /\ nsteps = 150

(***************************************************************************)
(* C3: a line whose remainder after the first character is not a string    *)
(* of decimal digits (L-5, R+5) is rejected and no answer is reported; so  *)
(* every simulated command has the <char><digits> shape and a magnitude    *)
(* that is not negative.                                                   *)
(***************************************************************************)
C3_MalformedRejected ==
    /\ (\E k \in 1..Len(lines) : ~WellShaped(lines[k])) => out = <<>>
    /\ pc = "range" => (WellShaped(line) /\ amount >= 0)

(***************************************************************************)
(* C4: if a line of the input is empty (the whole input empty or blank, or *)
(* a blank line between two commands) or is a direction character with no  *)
(* magnitude, the run ends in an error at that line, whatever was          *)
(* simulated before it, and the answer is never printed.                   *)
(***************************************************************************)
C4_EmptyLineNoAnswer ==
    /\ \A k \in 1..Len(lines) :
           Len(lines[k]) <= 1 =>
               /\ out = <<>>
               /\ pc # "done"
               /\ idx <= k
               /\ idx = k => pc \in {"amount", "error"}
    /\ Strip(text) = <<>> =>
           /\ out = <<>>
           /\ pc # "done"
           /\ pc # "start" => lines = << <<>> >>
    /\ pc = "error" <=> err # "none"

C4_Witness ==
    /\ pc = "error"
    /\ err = "IndexError"
    /\ idx = 2
    /\ Len(lines) = 3
    /\ zero_count = 1
    /\ out = <<>>

(***************************************************************************)
(* C5: the per-step delta of a command is -1 exactly when the first        *)
(* character of its line is L, and +1 for any other first character; such  *)
(* a line is not rejected; the delta stays fixed during the command.       *)
(***************************************************************************)
C5_DirectionMapping ==
    /\ pc \in {"amount", "range"} =>
           /\ line = lines[idx]
           /\ dir \in {-1, 1}
           /\ dir = -1 <=> line[1] = "L"
    /\ (idx >= 1 /\ WellShaped(line)) => pc # "error"

C5_Witness ==
    /\ pc = "range"
    /\ line = <<"l", "5">>
    /\ dir = 1
    /\ i = 5
    /\ dial = 55

(***************************************************************************)
(* C6: a command whose magnitude parses to 0 makes no unit step: the dial  *)
(* and the zero counter are what they were before it, whatever its         *)
(* direction and whatever the dial (0 included).                           *)
(***************************************************************************)
C6_ZeroMagnitude ==
    (idx >= 1 /\ pc \in {"range", "for", "done"} /\ amount = 0) =>
        /\ dial = dial_at_cmd
        /\ zero_count = count_at_cmd
        /\ nsteps = steps_at_cmd
        /\ i = 0

C6_Witness ==
    /\ pc = "for"
    /\ idx = 2
    /\ line = <<"L", "0">>
    /\ amount = 0
    /\ dial = 0
    /\ zero_count = 1

C8_DialRange ==
    /\ pc # "start" => dial \in 0..99
    /\ (pc = "for" /\ idx = 0) => dial = 50
    /\ (pc = "range" /\ i < amount) => (dial + dir + 100) \in 99..200

C8_Witness ==
    /\ pc = "range"
    /\ i < amount
    /\ dial = 0
    /\ dir = -1

(***************************************************************************)
(* C9: for a valid input the run terminates and prints the answer exactly  *)
(* once, after every unit step of every command in file order: the number  *)
(* of unit transitions made before the answer is the sum of the            *)
(* magnitudes, and nothing moves once the answer is printed.               *)
(***************************************************************************)
C9_AnswerOnceAtEnd ==
    /\ [](Len(out) <= 1)
    /\ [](out # <<>> =>
            /\ pc = "done"
            /\ idx = Len(lines)
            /\ ValidLines(lines) => nsteps = TotalMagnitude(lines))
    /\ []((pc = "range" /\ ValidLines(lines)) =>
            nsteps = TotalMagnitude(SubSeq(lines, 1, idx - 1)) + i)
    /\ [][out # <<>> =>
            (run' # run \/ UNCHANGED <<dial, zero_count, nsteps, out>>)]_vars
    /\ ((pc = "for" /\ idx = 0 /\ ValidLines(lines))
            ~> (pc = "done" /\ Len(out) = 1))

C9_Witness ==
    /\ pc = "done"
    /\ ValidLines(lines)
    /\ Len(lines) = 2
    /\ nsteps = 250
    /\ Len(out) = 1

(***************************************************************************)
(* C10: a command of magnitude m at dial d raises the zero counter by      *)
(* floor((d+m)/100) when the delta is +1; when it is -1, by floor(m/100)   *)
(* if d = 0, else by 0 if m < d and by 1 + floor((m-d)/100) if m >= d; the *)
(* dial after it is (d + delta*m) mod 100.                                 *)
(***************************************************************************)
C10_ClosedForm ==
    (idx >= 1 /\ pc \in {"for", "done"} /\ amount >= 0) =>
        /\ zero_count - count_at_cmd = ClosedCount(dial_at_cmd, dir, amount)
        /\ dial = ClosedDial(dial_at_cmd, dir, amount)

C10_Witness ==
    /\ pc = "for"
    /\ idx = 2
    /\ dir = -1
    /\ dial_at_cmd = 0
    /\ amount = 150
    /\ zero_count - count_at_cmd = 1
    /\ dial = 50

====
